---- MODULE Spec2Model ----
(***************************************************************************)
(* Model of src/rich-text/parse-style.ts: the inline-style parser          *)
(* parseStyle, its helper toCamelCase and the process-wide styleCache.     *)
(*                                                                         *)
(* A JavaScript string is a sequence of one-character strings, so that     *)
(* trim, split, startsWith and the regular-expression replace are computed *)
(* character by character.  A CSSProperties object is a pair of an object  *)
(* identity (id) and its contents (val), a function from property names to *)
(* values.  The Map styleCache is the sequence of its entries in insertion *)
(* order, which is the order in which Map.prototype.keys() iterates.       *)
(***************************************************************************)
EXTENDS Naturals, Sequences, FiniteSets, TLC

VARIABLES styleCache, nextId, nextFresh, pass, arg, ret, given

vars == <<styleCache, nextId, nextFresh, pass, arg, ret, given>>

(***************************************************************************)
(* Bounds of the model.                                                    *)
(***************************************************************************)
\* longest style string enumerated for the parser on its own
MaxLen == 5
\* number of never-seen-before style strings the render passes meet
MaxFresh == 202
\* the recurring and the empty style strings are met among the first MaxEarly
\* new style strings, and again from MaxLate new style strings before the
\* cache is full
MaxEarly == 1
\* longest property part and value part of the two-declaration style strings
MaxPart == 1
MaxLate == 1
\* number of render passes that share the cache
NumPasses == 2

(***************************************************************************)
(* JavaScript strings.                                                     *)
(***************************************************************************)
LowerCase ==
  <<"a","b","c","d","e","f","g","h","i","j","k","l","m",
    "n","o","p","q","r","s","t","u","v","w","x","y","z">>

UpperCase ==
  <<"A","B","C","D","E","F","G","H","I","J","K","L","M",
    "N","O","P","Q","R","S","T","U","V","W","X","Y","Z">>

\* the characters String.prototype.trim removes (those the model uses)
WhiteSpace == {" ", "\t", "\n", "\r"}

\* the value of a destructured array element that does not exist
Undefined == <<"undefined">>

IsLower(c) == \E i \in 1..Len(LowerCase) : LowerCase[i] = c

\* String.prototype.toUpperCase on one character
toUpperCase(c) ==
  IF IsLower(c)
    THEN UpperCase[CHOOSE i \in 1..Len(LowerCase) : LowerCase[i] = c]
    ELSE c

RECURSIVE trimStart(_)
trimStart(s) ==
  IF s # <<>> /\ Head(s) \in WhiteSpace THEN trimStart(Tail(s)) ELSE s

RECURSIVE trimEnd(_)
trimEnd(s) ==
  IF s # <<>> /\ s[Len(s)] \in WhiteSpace
    THEN trimEnd(SubSeq(s, 1, Len(s) - 1))
    ELSE s

\* String.prototype.trim
trim(s) == trimEnd(trimStart(s))

\* String.prototype.startsWith
startsWith(s, prefix) ==
  /\ Len(s) >= Len(prefix)
  /\ SubSeq(s, 1, Len(prefix)) = prefix

\* String.prototype.split with a one-character separator: every segment,
\* the empty ones included; a string without the separator is one segment
RECURSIVE split(_, _)
split(s, sep) ==
  IF \A i \in 1..Len(s) : s[i] # sep
    THEN <<s>>
    ELSE LET i == CHOOSE j \in 1..Len(s) :
                    /\ s[j] = sep
                    /\ \A k \in 1..(j - 1) : s[k] # sep
         IN  <<SubSeq(s, 1, i - 1)>> \o split(SubSeq(s, i + 1, Len(s)), sep)

(***************************************************************************)
(* toCamelCase: value.replace(/-([a-z])/g, g => g[1].toUpperCase()).       *)
(* The global replace scans left to right; a match consumes the hyphen and *)
(* the lowercase letter after it, any other character is copied.           *)
(***************************************************************************)
\* as toCamelCase, the replace without its g flag: the first match only
RECURSIVE toCamelCaseFirst(_)
toCamelCaseFirst(value) ==
  IF value = <<>> THEN <<>>
  ELSE IF Len(value) >= 2 /\ value[1] = "-" /\ IsLower(value[2])
    THEN <<toUpperCase(value[2])>> \o SubSeq(value, 3, Len(value))
    ELSE <<value[1]>> \o toCamelCaseFirst(Tail(value))

RECURSIVE toCamelCase(_)
toCamelCase(value) ==
  IF value = <<>> THEN <<>>
  ELSE IF Len(value) >= 2 /\ value[1] = "-" /\ IsLower(value[2])
    THEN <<toUpperCase(value[2])>> \o toCamelCase(SubSeq(value, 3, Len(value)))
    ELSE <<value[1]>> \o toCamelCase(Tail(value))

(***************************************************************************)
(* The body of the for loop of parseStyle, for one element el of           *)
(* normalizedStyle.split(";"): the new contents of styleProps.             *)
(***************************************************************************)
\* let [property, value] = el.split(":")
elProperty(el) == split(el, ":")[1]

elValue(el) ==
  LET parts == split(el, ":")
  IN  IF Len(parts) >= 2 THEN parts[2] ELSE Undefined

\* if (!property || value === undefined) continue
elSkipped(el) == elProperty(el) = <<>> \/ elValue(el) = Undefined

\* property = property.trim(); camelCase unless it starts with "--"
elKey(el) ==
  LET property == trim(elProperty(el))
  IN  IF ~startsWith(property, <<"-", "-">>)
        THEN toCamelCase(property)
        ELSE property

\* as setProp, keeping the value a name already has
setPropFirst(styleProps, property, value) ==
  [k \in (DOMAIN styleProps) \cup {property} |->
     IF k \in DOMAIN styleProps THEN styleProps[k] ELSE value]

\* styleProps[property] = value, on a plain object: a later assignment to the
\* same name replaces the value.  (The one name such an assignment does not
\* store, "__proto__", has characters that no style string of the model has.)
setProp(styleProps, property, value) ==
  [k \in (DOMAIN styleProps) \cup {property} |->
     IF k = property THEN value ELSE styleProps[k]]

loopBody(styleProps, el) ==
  IF elSkipped(el)
    THEN styleProps
    ELSE setProp(styleProps, elKey(el), trim(elValue(el)))

RECURSIVE loopFrom(_, _, _)
loopFrom(styleProps, styleElements, i) ==
  IF i > Len(styleElements)
    THEN styleProps
    ELSE loopFrom(loopBody(styleProps, styleElements[i]), styleElements, i + 1)

\* an object without properties: {}
EmptyProps == <<>>

\* lines 31-45: the contents of `parsed` for a non-empty normalizedStyle
parseProps(normalizedStyle) ==
  loopFrom(EmptyProps, split(normalizedStyle, ";"), 1)


(***************************************************************************)
(* Objects and the Map styleCache.                                         *)
(***************************************************************************)
\* bound on cached entries (const MAX_STYLE_CACHE_ENTRIES)
MAX_STYLE_CACHE_ENTRIES == 200

\* the object of line 31, filled by the loop: the n-th object a parse allocates
newObject(n, props) == [id |-> n, val |-> props]

\* as emptyObject, returning the object of the latest parse instead of a new {}
emptyObjectStale ==
  IF styleCache = <<>>
    THEN [id |-> 0, val |-> <<>>]
    ELSE styleCache[Len(styleCache)].obj

\* the `{}` of line 25: a new object that no one else holds and that is never
\* cached; the allocations of line 31 alone are numbered
emptyObject == [id |-> 0, val |-> EmptyProps]

\* no object: the result before the first call
NoObject == [id |-> 0, val |-> Undefined]

mapKeys(m) == {m[i].key : i \in 1..Len(m)}

\* Map.prototype.has
mapHas(m, k) == \E i \in 1..Len(m) : m[i].key = k

\* Map.prototype.get, for a key the map has
mapGet(m, k) == m[CHOOSE i \in 1..Len(m) : m[i].key = k].obj

\* Map.prototype.delete
mapDelete(m, k) == SelectSeq(m, LAMBDA e : e.key # k)

\* Map.prototype.set: a key the map has keeps its place, a new key goes last
mapSet(m, k, o) ==
  IF mapHas(m, k)
    THEN [i \in 1..Len(m) |-> IF m[i].key = k THEN [key |-> k, obj |-> o] ELSE m[i]]
    ELSE Append(m, [key |-> k, obj |-> o])

\* styleCache.keys().next().value
firstKey(m) == IF m = <<>> THEN Undefined ELSE m[1].key

\* as evictOldest, with `>` for `>=`
evictOldestOff(m) ==
  IF Len(m) > MAX_STYLE_CACHE_ENTRIES
    THEN IF firstKey(m) # Undefined THEN mapDelete(m, firstKey(m)) ELSE m
    ELSE m

\* as evictOldest, evicting one entry too early
evictOldestEarly(m) ==
  IF Len(m) >= MAX_STYLE_CACHE_ENTRIES - 1
    THEN IF firstKey(m) # Undefined THEN mapDelete(m, firstKey(m)) ELSE m
    ELSE m

\* lines 48-53: the cache after the bounding step of a miss
evictOldest(m) ==
  IF Len(m) >= MAX_STYLE_CACHE_ENTRIES
    THEN IF firstKey(m) # Undefined THEN mapDelete(m, firstKey(m)) ELSE m
    ELSE m

\* as insertParsed, with styleProps one object shared by every entry
insertParsedShared(m, normalizedStyle, parsed) ==
  [i \in 1..(Len(m) + 1) |->
     [key |-> IF i <= Len(m) THEN m[i].key ELSE normalizedStyle, obj |-> parsed]]

\* line 54
insertParsed(m, normalizedStyle, parsed) == mapSet(m, normalizedStyle, parsed)

\* as cacheAfterHit, a hit re-inserting its entry (least-recently-used order)
cacheAfterHitRefresh(m, normalizedStyle) ==
  LET o == mapGet(m, normalizedStyle)
  IN  mapSet(mapDelete(m, normalizedStyle), normalizedStyle, o)

\* lines 28-29: a hit returns the cached object and leaves the Map alone
cacheAfterHit(m, normalizedStyle) == m

\* line 28: the key the cache is asked for
lookupKey(normalizedStyle) == normalizedStyle

\* line 29: `if (cached)`; every cached value is an object, hence truthy
isHit(m, normalizedStyle) == mapHas(m, lookupKey(normalizedStyle))

\* as hitResult, returning the object cached last
hitResultLast(m, normalizedStyle) == m[Len(m)].obj

\* as hitResult, returning a copy of the cached object
hitResultCopy(m, normalizedStyle) ==
  [id |-> nextId + 1, val |-> mapGet(m, lookupKey(normalizedStyle)).val]

\* line 29: `return cached`
hitResult(m, normalizedStyle) == mapGet(m, lookupKey(normalizedStyle))

\* as normalize, trimming the start only
normalizeStart(style) == trimStart(style)

\* line 22
normalize(style) == trim(style)

(***************************************************************************)
(* History of the calls, kept for the properties only.                     *)
(*   arg    the argument of the last call                                  *)
(*   ret    the object the last call returned                              *)
(*   given  what the last call did: its kind, the entries it evicted and   *)
(*          whether the call before it was a hit returning an evicted      *)
(*          entry's object; and, per key, the id of the object last        *)
(*          returned for that key (forgotten when the key is evicted);     *)
(*          and the pass that made the call before the last one            *)
(***************************************************************************)
Range(m) == {m[i] : i \in 1..Len(m)}

\* the entries of m that m2 no longer has
removedBy(m, m2) ==
  IF Len(m2) >= Len(m) /\ SubSeq(m2, 1, Len(m)) = m
    THEN {}
    ELSE Range(m) \ Range(m2)

record(kind, style, result, m2) ==
  LET gone == removedBy(styleCache, m2)
      k    == normalize(style)
      kept == IF gone = {}
                THEN given.out
                ELSE SelectSeq(given.out, LAMBDA p : p[1] \notin {e.key : e \in gone})
      now  == <<k, result.id>>
  IN  [kind    |-> kind,
       evicted |-> gone,
       hitJustBefore |-> given.kind = "hit" /\ \E e \in gone : e.obj = ret,
       before  |-> pass,
       out     |-> IF kind = "empty" THEN given.out
                   ELSE IF \E i \in 1..Len(kept) : kept[i][1] = k
                     THEN [i \in 1..Len(kept) |-> IF kept[i][1] = k THEN now ELSE kept[i]]
                     ELSE Append(kept, now)]

(***************************************************************************)
(* parseStyle(style), one synchronous call.                                *)
(***************************************************************************)
parseStyleEmpty(style) ==
  /\ normalize(style) = <<>>
  /\ LET result == emptyObject
     IN  /\ ret' = result
         /\ nextId' = nextId
         /\ styleCache' = styleCache
         /\ given' = record("empty", style, result, styleCache)

parseStyleHit(style) ==
  /\ normalize(style) # <<>>
  /\ isHit(styleCache, normalize(style))
  /\ LET result == hitResult(styleCache, normalize(style))
         m2     == cacheAfterHit(styleCache, normalize(style))
     IN  /\ ret' = result
         /\ nextId' = nextId
         /\ styleCache' = m2
         /\ given' = record("hit", style, result, m2)

isMiss(style) ==
  /\ normalize(style) # <<>>
  /\ ~isHit(styleCache, normalize(style))

parseStyleMiss(style) ==
  /\ isMiss(style)
  /\ LET parsed == newObject(nextId + 1, parseProps(normalize(style)))
         m2     == insertParsed(evictOldest(styleCache), normalize(style), parsed)
     IN  /\ ret' = parsed
         /\ nextId' = nextId + 1
         /\ styleCache' = m2
         /\ given' = record("miss", style, parsed, m2)

parseStyle(style) ==
  /\ arg' = style
  /\ \/ parseStyleEmpty(style)
     \/ parseStyleHit(style)
     \/ parseStyleMiss(style)

(***************************************************************************)
(* The callers of parseStyle: render passes that hand it the style         *)
(* attribute of each element they meet.  parseStyle is a synchronous       *)
(* function (no await, no yield, no callback in lines 21-57), so a call    *)
(* runs to completion before any other pass runs: one call is one step.    *)
(***************************************************************************)
Passes == 1..NumPasses

Digits == <<"0","1","2","3","4","5","6","7","8","9">>

\* the n-th style string never seen before: "z-index:NNN"
Fresh(n) ==
  <<"z","-","i","n","d","e","x",":">> \o
  <<Digits[((n \div 100) % 10) + 1], Digits[((n \div 10) % 10) + 1], Digits[(n % 10) + 1]>>

\* a style string that recurs, with and without surrounding white space
Recurring == <<"c","o","l","o","r",":"," ","r","e","d">>

Styles ==
  { Recurring, <<" ">> \o Recurring \o <<" ", "\n">>, <<>>, <<" ", " ">> }

Init ==
  /\ styleCache = <<>>
  /\ nextId = 0
  /\ nextFresh = 0
  /\ pass = 1
  /\ arg = <<>>
  /\ ret = NoObject
  /\ given = [kind |-> "none", evicted |-> {}, hitJustBefore |-> FALSE,
              before |-> 1, out |-> <<>>]

knownMet ==
  \/ nextFresh <= MaxEarly
  \/ nextFresh + MaxLate >= MAX_STYLE_CACHE_ENTRIES - 1

\* pass p meets an element whose style string recurs, or is empty
RenderKnown(p) ==
  /\ knownMet
  /\ \E style \in Styles : parseStyle(style)
  /\ pass' = p
  /\ UNCHANGED nextFresh

\* pass p meets an element whose style string was never met before
RenderFresh(p) ==
  /\ nextFresh < MaxFresh
  /\ parseStyle(Fresh(nextFresh + 1))
  /\ pass' = p
  /\ nextFresh' = nextFresh + 1

Next == \E p \in Passes : RenderKnown(p) \/ RenderFresh(p)

Spec == Init /\ [][Next]_vars

(***************************************************************************)
(* The parser on its own: one call of parseStyle, on an empty cache, for   *)
(* every style string over Alphabet of at most MaxLen characters and for   *)
(* the examples of the documentation.                                      *)
(***************************************************************************)
Alphabet == {"a", "A", "-", ":", ";", " "}

StringsUpTo(n) == UNION {[1..k -> Alphabet] : k \in 0..n}

\* "color: red; --x: 1; margin-top : 2px"
Example ==
  <<"c","o","l","o","r",":"," ","r","e","d",";"," ","-","-","x",":"," ","1",";",
    " ","m","a","r","g","i","n","-","t","o","p"," ",":"," ","2","p","x">>

\* "background: url(http://a)"
ExampleUrl ==
  <<"b","a","c","k","g","r","o","u","n","d",":"," ",
    "u","r","l","(","h","t","t","p",":","/","/","a",")">>

\* "z-index: 1; zIndex : 2"
ExampleTwice ==
  <<"z","-","i","n","d","e","x",":"," ","1",";",
    " ","z","I","n","d","e","x"," ",":"," ","2">>

\* the parts of a declaration: no colon, no semicolon
Parts ==
  UNION {[1..k -> Alphabet \ {":", ";"}] : k \in 0..MaxPart}

\* "property:value;property:value", for all short parts
TwoDeclarations ==
  {p \o <<":">> \o v \o <<";">> \o q \o <<":">> \o w :
     p \in Parts, v \in Parts, q \in Parts, w \in Parts}

ParseInputs ==
  StringsUpTo(MaxLen) \cup TwoDeclarations \cup {Example, ExampleUrl, ExampleTwice}

InitParse ==
  /\ styleCache = <<>>
  /\ nextId = 0
  /\ nextFresh = 0
  /\ pass = 1
  /\ arg \in ParseInputs
  /\ ret = NoObject
  /\ given = [kind |-> "none", evicted |-> {}, hitJustBefore |-> FALSE,
              before |-> 1, out |-> <<>>]

ParseGiven ==
  /\ given.kind = "none"
  /\ parseStyle(arg)
  /\ UNCHANGED <<nextFresh, pass>>

NextParse == ParseGiven

SpecParse == InitParse /\ [][NextParse]_vars

(***************************************************************************)
(* Properties.  In a step of Spec the primed arg is the argument of the    *)
(* call the step makes and the primed ret its result; the unprimed         *)
(* styleCache is the cache the call finds.                                 *)
(***************************************************************************)
called == given.kind # "none"

onlyWhiteSpace(s) == \A i \in 1..Len(s) : s[i] \in WhiteSpace

\* the call that a step makes misses: its trimmed argument is not empty and
\* is no key of the cache it finds
missStep == ~onlyWhiteSpace(arg') /\ trim(arg') \notin mapKeys(styleCache)

\* lines 22-26 and 31-45 without the cache: what parseStyle computes from
\* its argument alone
parseUncached(style) ==
  IF trim(style) = <<>> THEN EmptyProps ELSE parseProps(trim(style))

\* C1: a miss on a cache of MAX_STYLE_CACHE_ENTRIES entries removes exactly
\* the entry inserted earliest among those cached (the one whose object the
\* earliest parse allocated), whether or not a hit returned it since.
EvictionByInsertionOrder ==
  [][ (missStep /\ Len(styleCache) = MAX_STYLE_CACHE_ENTRIES)
        => \E e \in Range(styleCache) :
             /\ \A f \in Range(styleCache) : e.obj.id <= f.obj.id
             /\ Range(styleCache) \ Range(styleCache') = {e} ]_vars

\* C1 witness: a miss has just evicted the entry that the call before it,
\* a hit, had returned.
EvictedRightAfterItsHit ==
  /\ given.kind = "miss"
  /\ given.hitJustBefore
  /\ Cardinality(given.evicted) = 1

\* C2: the cache never holds more than MAX_STYLE_CACHE_ENTRIES entries.
CacheBounded == Len(styleCache) <= MAX_STYLE_CACHE_ENTRIES

\* C2 witness: a full cache after a call that had to evict.
FullAfterEviction ==
  /\ Len(styleCache) = MAX_STYLE_CACHE_ENTRIES
  /\ given.evicted # {}

\* C3: whatever the calls before it, a call returns a map equal to what the
\* parse without the cache computes from the trimmed argument.
CacheTransparent == called => ret.val = parseUncached(arg)

\* C3 witness: a hit through an argument with surrounding white space, on an
\* entry parsed after the cache had overflowed.
PaddedHitAfterOverflow ==
  /\ given.kind = "hit"
  /\ arg # trim(arg)
  /\ ret.id > MAX_STYLE_CACHE_ENTRIES + 1

\* C4: a call whose trimmed, non-empty argument was given an object by an
\* earlier call, and whose entry was not evicted since, returns that object.
SameInstanceWhileCached ==
  [][ \A i \in 1..Len(given.out) :
        (~onlyWhiteSpace(arg') /\ given.out[i][1] = trim(arg'))
          => ret'.id = given.out[i][2] ]_vars

\* C4 witness: a hit, through an argument with surrounding white space, that
\* returned the object last returned for its key.
HitReturnedGivenObject ==
  /\ given.kind = "hit"
  /\ arg # trim(arg)
  /\ \E i \in 1..Len(given.out) : given.out[i] = <<trim(arg), ret.id>>
  /\ ret.id >= 1

\* C8: for an empty or white-space-only argument the call returns an empty
\* map, whatever the cache holds.
EmptyInputEmptyMap ==
  (called /\ onlyWhiteSpace(arg)) => (ret.val = EmptyProps /\ DOMAIN ret.val = {})

\* C8 witness: a white-space-only argument handled while the cache is full.
BlankOnFullCache ==
  /\ given.kind = "empty"
  /\ arg = <<" ", " ">>
  /\ Len(styleCache) = MAX_STYLE_CACHE_ENTRIES

\* C9: under every interleaving of the calls of the passes the cache holds
\* at most MAX_STYLE_CACHE_ENTRIES entries, no key twice, and under every key
\* the parse of that key.
CacheNeverCorrupted ==
  /\ Len(styleCache) <= MAX_STYLE_CACHE_ENTRIES
  /\ Cardinality(mapKeys(styleCache)) = Len(styleCache)
  /\ \A i \in 1..Len(styleCache) :
       styleCache[i].obj.val = parseUncached(styleCache[i].key)

\* C9 witness: on a full cache, a pass evicts with its call right after the
\* call of another pass.
PassesInterleaveOnFullCache ==
  /\ Len(styleCache) = MAX_STYLE_CACHE_ENTRIES
  /\ given.kind = "miss"
  /\ given.evicted # {}
  /\ pass # given.before

\* C10: a miss on fewer than MAX_STYLE_CACHE_ENTRIES entries keeps every
\* entry and grows the cache by one; a miss on a full cache removes exactly
\* one entry and leaves the cache full; either way the trimmed argument is
\* the key inserted last.
MissEvictsAtMostOne ==
  [][ missStep =>
        /\ Len(styleCache) < MAX_STYLE_CACHE_ENTRIES
             => /\ Range(styleCache) \subseteq Range(styleCache')
                /\ Len(styleCache') = Len(styleCache) + 1
        /\ Len(styleCache) >= MAX_STYLE_CACHE_ENTRIES
             => /\ Cardinality(Range(styleCache) \ Range(styleCache')) = 1
                /\ Len(styleCache') = MAX_STYLE_CACHE_ENTRIES
        /\ styleCache' # <<>>
        /\ styleCache'[Len(styleCache')].key = trim(arg')
        /\ \A i \in 1..Len(styleCache') :
             styleCache'[i].obj.id <= styleCache'[Len(styleCache')].obj.id ]_vars

\* C10 witness: a miss that evicted one entry, and left the cache full.
MissOnFullCache ==
  /\ given.kind = "miss"
  /\ Cardinality(given.evicted) = 1
  /\ Len(styleCache) = MAX_STYLE_CACHE_ENTRIES
  /\ styleCache[Len(styleCache)].key = trim(arg)

(***************************************************************************)
(* The declarations of a style string as the documentation describes them: *)
(* the text between the semicolons of the trimmed string, each split at    *)
(* its first colon into a property part and a value part.                  *)
(***************************************************************************)
declarations(style) == split(trim(style), ";")

hasColon(d) == \E i \in 1..Len(d) : d[i] = ":"

firstColon(d) ==
  CHOOSE i \in 1..Len(d) : d[i] = ":" /\ \A j \in 1..(i - 1) : d[j] # ":"

propertyPart(d) == trim(SubSeq(d, 1, firstColon(d) - 1))

valuePart(d) == trim(SubSeq(d, firstColon(d) + 1, Len(d)))

wellFormed(d) == hasColon(d) /\ propertyPart(d) # <<>> /\ valuePart(d) # <<>>

\* the hyphens of p that a lowercase letter follows
hyphens(p) == {i \in 1..Len(p) : p[i] = "-" /\ i < Len(p) /\ IsLower(p[i + 1])}

RECURSIVE without(_, _, _)
without(q, H, i) ==
  IF i > Len(q) THEN <<>>
  ELSE (IF i \in H THEN <<>> ELSE <<q[i]>>) \o without(q, H, i + 1)

\* kebab-case to camelCase: every such hyphen goes, its letter is capitalised
camelCased(p) ==
  LET H == hyphens(p)
      q == [i \in 1..Len(p) |-> IF (i - 1) \in H THEN toUpperCase(p[i]) ELSE p[i]]
  IN  without(q, H, 1)

\* the key of a property name: verbatim for a custom property
keyOf(p) ==
  IF Len(p) >= 2 /\ p[1] = "-" /\ p[2] = "-" THEN p ELSE camelCased(p)

\* {color: "red", "--x": "1", marginTop: "2px"}
ExampleMap ==
  [k \in {<<"c","o","l","o","r">>, <<"-","-","x">>,
          <<"m","a","r","g","i","n","T","o","p">>} |->
     IF k = <<"c","o","l","o","r">> THEN <<"r","e","d">>
     ELSE IF k = <<"-","-","x">> THEN <<"1">>
     ELSE <<"2","p","x">>]

\* C5: the value stored for a declaration is everything after its first
\* colon, trimmed (stated for the well-formed declarations that no later
\* declaration of the same string overrides).
ValueIsWholeRemainder ==
  called =>
    LET ds == declarations(arg)
    IN  \A i \in 1..Len(ds) :
          ( /\ wellFormed(ds[i])
            /\ \A j \in (i + 1)..Len(ds) :
                 hasColon(ds[j]) => keyOf(propertyPart(ds[j])) # keyOf(propertyPart(ds[i])) )
          => /\ keyOf(propertyPart(ds[i])) \in DOMAIN ret.val
             /\ ret.val[keyOf(propertyPart(ds[i]))] = valuePart(ds[i])

\* C6: the entries of the returned map are those of the well-formed
\* declarations: a declaration without a colon, or whose property part or
\* value part is empty after trimming, adds none.
MalformedSkipped ==
  called =>
    LET ds == declarations(arg)
    IN  DOMAIN ret.val =
          {keyOf(propertyPart(ds[i])) : i \in {j \in 1..Len(ds) : wellFormed(ds[j])}}

\* C7: every key of the returned map is the trimmed property part of a
\* declaration, camelCased unless it starts with "--"; the key of every
\* well-formed declaration is in the map; and the documented example yields
\* exactly the documented map.
KeysCamelCased ==
  called =>
    LET ds == declarations(arg)
    IN  /\ \A k \in DOMAIN ret.val :
             \E i \in 1..Len(ds) : hasColon(ds[i]) /\ k = keyOf(propertyPart(ds[i]))
        /\ \A i \in 1..Len(ds) :
             wellFormed(ds[i]) => keyOf(propertyPart(ds[i])) \in DOMAIN ret.val
        /\ arg = Example => ret.val = ExampleMap

\* C7 witness: the documented example has been parsed, with a camelCased
\* and a custom property among its keys.
ExampleParsed ==
  /\ given.kind = "miss"
  /\ arg = Example
  /\ <<"m","a","r","g","i","n","T","o","p">> \in DOMAIN ret.val
  /\ <<"-","-","x">> \in DOMAIN ret.val

\* C11: a call that is a hit, or whose argument is empty or white space
\* only, leaves the cache as it found it: the same keys in the same order
\* with the same objects; and a miss leaves every entry that stays in the
\* cache with the object it had.
CacheUnchangedUnlessMiss ==
  [][ /\ (onlyWhiteSpace(arg') \/ trim(arg') \in mapKeys(styleCache))
           => styleCache' = styleCache
      /\ missStep
           => LET keys == mapKeys(styleCache)
                  had  == Range(styleCache)
              IN  \A e \in Range(styleCache') : e.key \in keys => e \in had ]_vars

\* C11 witness: a hit on a full cache, after which the entry hit is still
\* the oldest one and nothing was evicted.
HitLeftFullCacheAlone ==
  /\ given.kind = "hit"
  /\ given.evicted = {}
  /\ Len(styleCache) = MAX_STYLE_CACHE_ENTRIES
  /\ styleCache[1].key = trim(arg)
  /\ styleCache[1].obj = ret

\* the keys of m are non-empty, without leading or trailing white space
\* (each is its own trimmed form), and pairwise different
keysTrimmed(m) ==
  /\ \A i \in 1..Len(m) :
       /\ m[i].key # <<>>
       /\ m[i].key[1] \notin WhiteSpace
       /\ m[i].key[Len(m[i].key)] \notin WhiteSpace
  /\ Cardinality(mapKeys(m)) = Len(m)

\* C12: the cache that a call leaves has only non-empty keys without leading
\* or trailing white space, no two of them the same once trimmed, and every
\* key that the call added is its trimmed argument.  (The cache before the
\* first call is empty.)
KeysNormalized ==
  [][ /\ keysTrimmed(styleCache')
      /\ mapKeys(styleCache') \subseteq mapKeys(styleCache) \cup {trim(arg')} ]_vars

\* C12 witness: the recurring style was first met with white space around
\* it, and its trimmed form is the key the call added.
PaddedArgumentCachedTrimmed ==
  /\ given.kind = "miss"
  /\ arg # trim(arg)
  /\ styleCache[Len(styleCache)].key = trim(arg)
  /\ arg \notin mapKeys(styleCache)

\* C13: when a well-formed declaration is the last one of its key in the
\* string and an earlier declaration has the same key, the map has that key
\* once, with the value of the last declaration.
LastDeclarationWins ==
  called =>
    LET ds == declarations(arg)
    IN  \A i \in 1..Len(ds) :
          ( /\ wellFormed(ds[i])
            /\ ~hasColon(valuePart(ds[i]))
            /\ \E j \in 1..(i - 1) :
                 /\ hasColon(ds[j])
                 /\ keyOf(propertyPart(ds[j])) = keyOf(propertyPart(ds[i]))
            /\ \A j \in (i + 1)..Len(ds) :
                 hasColon(ds[j]) => keyOf(propertyPart(ds[j])) # keyOf(propertyPart(ds[i])) )
          => /\ keyOf(propertyPart(ds[i])) \in DOMAIN ret.val
             /\ ret.val[keyOf(propertyPart(ds[i]))] = valuePart(ds[i])

\* C13 witness: "z-index: 1; zIndex : 2" parsed to the one entry zIndex: "2".
DeclaredTwiceParsed ==
  /\ given.kind = "miss"
  /\ arg = ExampleTwice
  /\ DOMAIN ret.val = {<<"z","I","n","d","e","x">>}
  /\ ret.val[<<"z","I","n","d","e","x">>] = <<"2">>

====
